---- MODULE Spec2Model ----
(***************************************************************************)
(* DP_Trade_Calc: a FastAPI service (src/main.py) that serves the rows of  *)
(* a database view through GET /view, guarded by a static API key and a    *)
(* single process-wide TTL cache slot (cache_data, cache_expiry).          *)
(*                                                                         *)
(* The handlers are sync `def` functions, which FastAPI runs on a thread   *)
(* pool: each request is a thread whose position is pc[r], and one action  *)
(* is one read or write of the shared slot (or one purely local step).     *)
(* The labels of pc are the source lines of src/main.py.                   *)
(***************************************************************************)
EXTENDS Integers, Sequences, FiniteSets, TLC

\* ----------------------------------------------------------------- bounds
NReq == 2          \* request threads of the pool, when requests run concurrently
MaxClock == 3      \* the clock stops advancing here
MaxTTL == 2        \* settings.CACHE_TTL is drawn from 0..MaxTTL
MaxClockConc == 2  \* the same two bounds, when requests run concurrently
MaxTTLConc == 1
MaxRows == 2       \* the view never holds more rows than this
NGen == 2          \* distinct contents the view takes over time
MaxLimit == 2      \* request limits are drawn from -NegLimit..MaxLimit (and the default)
NegLimit == 1
MaxLimitConc == 1  \* and from 1..MaxLimitConc when requests run concurrently
MaxFetch == 3      \* fetches issued in one run (the preload is the first)

\* -------------------------------------------------------------- constants
PreloadLimit == 100   \* fetch_view_data(100) in preload_cache
DefaultLimit == 100   \* limit: int = 100 in read_view

Reqs == 1..NReq
Startup == 0          \* the thread that runs the startup handler
Gens == 1..NGen
Limits == ((0 - NegLimit)..MaxLimit) \cup {DefaultLimit}
ConcLimits == 1..MaxLimitConc

\* Python's None and a held value, as a sequence of length 0 or 1.
None == <<>>
Some(x) == <<x>>
Val(o) == o[1]

Min(a, b) == IF a <= b THEN a ELSE b
Max(a, b) == IF a >= b THEN a ELSE b

\* The X-API-Key header of a request: absent, an ASCII string other than
\* API_KEY, a string with a non-ASCII character, or API_KEY itself.
Keys == {"missing", "wrong", "nonascii", "valid"}

VARIABLES
  workers,       \* threads serving requests at once (1: one at a time)
  ttl,           \* settings.CACHE_TTL
  clock,         \* datetime.utcnow(), in seconds
  phase,         \* "startup", "L75" (preload fetched), "serving", "failed"
  cache_data,    \* global cache_data: None or Some(rows)
  cache_expiry,  \* global cache_expiry: None or Some(time)
  pc,            \* pc[r]: position of request thread r
  key,           \* key[r]: the request's X-API-Key header
  path,          \* path[r]: the route of the request: "/view", "/health" or "/"
  limit,         \* limit[r]: the request's limit query parameter
  now,           \* now[r]: local `now` of get_cached_data
  rows,          \* rows[r]: local `data` of get_cached_data / `rows` of read_view
  resp,          \* resp[r]: the response sent
  nfetch,        \* history: number of fetch_view_data calls so far
  ver,           \* history: ver[r], the number of the fetch request r made
  dataVer,       \* history: the fetch whose refresh wrote cache_data
  expVer,        \* history: the fetch whose refresh wrote cache_expiry
  fetchLog,      \* history: fetchLog[r], the limits the current call of r passed
                 \* to fetch_view_data (fetchLog[Startup]: those of preload_cache)
  slotLimit,     \* history: the limit of the fetch whose rows cache_data holds
  lastStatus     \* history: status of the last completed valid-key /view request

vars == <<workers, ttl, clock, phase, cache_data, cache_expiry, pc, key, path, limit,
          now, rows, resp, nfetch, ver, dataVer, expVer, fetchLog, slotLimit,
          lastStatus>>

slot == <<cache_data, cache_expiry>>
hist == <<nfetch, ver, dataVer, expVer, fetchLog, slotLimit, lastStatus>>
conf == <<workers, ttl>>
locals == <<key, path, limit, now, rows, resp>>

\* ------------------------------------------------------------ data source
\* A row of the view: its position i in the content generation g.
RowSeq(g, n) == [i \in 1..n |-> <<g, i>>]

\* What `SELECT * FROM VORP_Latest LIMIT :limit` can return: at most `limit`
\* rows of the view's current content; MySQL rejects a negative LIMIT, so
\* such a call can only raise.
FetchOk(lim) ==
  IF lim < 0 THEN {}
  ELSE {RowSeq(g, n) : g \in Gens, n \in 0..Min(lim, MaxRows)}

\* --------------------------------------------------------- python helpers
\* bool(x) of a list-or-None and of a datetime-or-None.
TruthyList(o) == o # None /\ Val(o) # <<>>
TruthyTime(o) == o # None

\* rows[:n]
PySlice(s, n) ==
  IF n >= 0 THEN SubSeq(s, 1, Min(n, Len(s)))
  ELSE SubSeq(s, 1, Max(0, Len(s) + n))

AuthOutcomeLax(k) ==
  CASE k = "missing"  -> "403"
    [] k = "nonascii" -> "TypeError"
    [] OTHER          -> "ok"

\* APIKeyHeader(auto_error=True) followed by secrets.compare_digest(api_key,
\* settings.API_KEY): the outcome of the dependency for a header value.
\* compare_digest raises TypeError on a str with a non-ASCII character.
AuthOutcome(k) ==
  CASE k = "missing"  -> "403"
    [] k = "nonascii" -> "TypeError"
    [] k = "wrong"    -> "403"
    [] OTHER          -> "ok"

NoResp == [status |-> 0, kind |-> "none", rows |-> <<>>]
Resp(s, k, rs) == [status |-> s, kind |-> k, rows |-> rs]

\* ------------------------------------------------------------------- init
InitWith(w, ttls, phases) ==
  /\ workers = w
  /\ ttl \in ttls
  /\ clock = 0
  /\ phase \in phases
  /\ cache_data = None
  /\ cache_expiry = None
  /\ pc = [r \in Reqs |-> "idle"]
  /\ key = [r \in Reqs |-> "valid"]
  /\ path = [r \in Reqs |-> "/view"]
  /\ limit = [r \in Reqs |-> 0]
  /\ now = [r \in Reqs |-> 0]
  /\ rows = [r \in Reqs |-> <<>>]
  /\ resp = [r \in Reqs |-> NoResp]
  /\ nfetch = 0
  /\ ver = [r \in Reqs |-> 0]
  /\ dataVer = 0
  /\ expVer = 0
  /\ fetchLog = [r \in Reqs \cup {Startup} |-> <<>>]
  /\ slotLimit = 0
  /\ lastStatus = 0

Init == InitWith(1, 0..MaxTTL, {"startup"})
InitConc == InitWith(NReq, 0..MaxTTLConc, {"startup"})

\* The application object is also served without its startup handlers
\* (lifespan switched off in the server, or the app mounted under another
\* one): the first request then finds the globals of lines 49-50 untouched.
InitCold == InitWith(1, 0..MaxTTL, {"startup", "serving"})

\* ------------------------------------------------------------------ clock
Tick(max) ==
  /\ clock < max
  /\ clock' = clock + 1
  /\ UNCHANGED <<conf, phase, slot, pc, locals, hist>>

\* ---------------------------------------------------------------- startup
\* preload_cache, line 74: cache_data = fetch_view_data(100). An exception
\* leaves the startup handler, and the application does not start.
PreloadRaisesSwallowed ==
  /\ phase' = "serving"
  /\ UNCHANGED <<cache_data, dataVer, slotLimit>>

PreloadRaises ==
  /\ phase' = "failed"
  /\ UNCHANGED <<cache_data, dataVer, slotLimit>>

PreloadFetch ==
  /\ phase = "startup"
  /\ nfetch' = nfetch + 1
  /\ fetchLog' = [fetchLog EXCEPT ![Startup] = Append(@, PreloadLimit)]
  /\ \/ \E res \in FetchOk(PreloadLimit) :
          /\ cache_data' = Some(res)
          /\ dataVer' = nfetch'
          /\ slotLimit' = PreloadLimit
          /\ phase' = "L75"
     \/ PreloadRaises
  /\ UNCHANGED <<conf, clock, cache_expiry, pc, locals, ver, expVer, lastStatus>>

\* preload_cache, line 75: cache_expiry = datetime.utcnow() + CACHE_TTL.
PreloadStore ==
  /\ phase = "L75"
  /\ cache_expiry' = Some(clock + ttl)
  /\ expVer' = dataVer
  /\ phase' = "serving"
  /\ UNCHANGED <<conf, clock, cache_data, pc, locals, nfetch, ver, dataVer,
                 fetchLog, slotLimit, lastStatus>>

\* ---------------------------------------------------------------- request
\* A GET /view request reaches a free thread of the pool, whose threads are
\* 1..workers. The server accepts requests only after the startup handlers
\* have returned.
Request(r, lims) ==
  /\ phase = "serving"
  /\ pc[r] = "idle"
  /\ r <= workers
  /\ \E k \in Keys, l \in lims :
       /\ key' = [key EXCEPT ![r] = k]
       /\ limit' = [limit EXCEPT ![r] = l]
  /\ path' = [path EXCEPT ![r] = "/view"]
  /\ pc' = [pc EXCEPT ![r] = "auth"]
  /\ UNCHANGED <<conf, clock, phase, slot, now, rows, resp, hist>>

\* health, lines 79-81: GET /health, no dependency and no access to the slot.
Health(r) ==
  /\ phase = "serving"
  /\ pc[r] = "idle"
  /\ r <= workers
  /\ path' = [path EXCEPT ![r] = "/health"]
  /\ resp' = [resp EXCEPT ![r] = Resp(200, "status", <<>>)]
  /\ pc' = [pc EXCEPT ![r] = "done"]
  /\ UNCHANGED <<conf, clock, phase, slot, key, limit, now, rows, hist>>

\* root, lines 91-93: GET /, no dependency and no access to the slot.
Root(r) ==
  /\ phase = "serving"
  /\ pc[r] = "idle"
  /\ r <= workers
  /\ path' = [path EXCEPT ![r] = "/"]
  /\ resp' = [resp EXCEPT ![r] = Resp(200, "message", <<>>)]
  /\ pc' = [pc EXCEPT ![r] = "done"]
  /\ UNCHANGED <<conf, clock, phase, slot, key, limit, now, rows, hist>>

\* require_api_key (with the APIKeyHeader dependency it depends on). It runs
\* before read_view, outside its try block: HTTPException becomes a 403, any
\* other exception the server's 500 "Internal Server Error".
RequireApiKey(r) ==
  /\ pc[r] = "auth"
  /\ LET out == AuthOutcome(key[r]) IN
       CASE out = "ok" ->
              /\ pc' = [pc EXCEPT ![r] = "L62"]
              /\ UNCHANGED resp
         [] out = "403" ->
              /\ pc' = [pc EXCEPT ![r] = "done"]
              /\ resp' = [resp EXCEPT ![r] = Resp(403, "detail", <<>>)]
         [] OTHER ->
              /\ pc' = [pc EXCEPT ![r] = "done"]
              /\ resp' = [resp EXCEPT ![r] = Resp(500, "server_error", <<>>)]
  /\ UNCHANGED <<conf, clock, phase, slot, key, path, limit, now, rows, hist>>

\* get_cached_data, line 62: now = datetime.utcnow()
ReadNow(r) ==
  /\ pc[r] = "L62"
  /\ now' = [now EXCEPT ![r] = clock]
  /\ pc' = [pc EXCEPT ![r] = "L63a"]
  /\ UNCHANGED <<conf, clock, phase, slot, key, path, limit, rows, resp, hist>>

\* line 63, first operand: `cache_data and ...`
CheckData(r) ==
  /\ pc[r] = "L63a"
  /\ pc' = [pc EXCEPT ![r] = IF TruthyList(cache_data) THEN "L63b" ELSE "L65"]
  /\ UNCHANGED <<conf, clock, phase, slot, locals, hist>>

\* line 63, second operand: `... and cache_expiry and ...`
CheckExpiry(r) ==
  /\ pc[r] = "L63b"
  /\ pc' = [pc EXCEPT ![r] = IF TruthyTime(cache_expiry) THEN "L63c" ELSE "L65"]
  /\ UNCHANGED <<conf, clock, phase, slot, locals, hist>>

\* line 63, third operand: `now < cache_expiry`
NotExpired(t, e) == t < e

CompareExpiry(r) ==
  /\ pc[r] = "L63c"
  /\ pc' = [pc EXCEPT ![r] =
              IF NotExpired(now[r], Val(cache_expiry)) THEN "L64" ELSE "L65"]
  /\ UNCHANGED <<conf, clock, phase, slot, locals, hist>>

\* line 64: return cache_data (and line 86: rows = ...)
ReturnCached(r) ==
  /\ pc[r] = "L64"
  /\ rows' = [rows EXCEPT ![r] = Val(cache_data)]
  /\ pc' = [pc EXCEPT ![r] = "L87"]
  /\ UNCHANGED <<conf, clock, phase, slot, key, path, limit, now, resp, hist>>

\* The argument of the fetch of line 65.
FetchArg(r) == limit[r]

\* Variant of ErrorResponse: on a failed fetch the rows still in the slot are
\* served.
StaleResponse(r) ==
  Resp(200, "rows", PySlice(IF cache_data = None THEN <<>> ELSE Val(cache_data),
                            limit[r]))

\* read_view, lines 88-89: any exception of get_cached_data becomes a 500
\* with {"error": str(e)}.
ErrorResponse(r) == Resp(500, "error", <<>>)

\* Variant of FetchRaises: the failed call empties the slot.
FetchRaisesClears(r) ==
  /\ pc' = [pc EXCEPT ![r] = "done"]
  /\ resp' = [resp EXCEPT ![r] = ErrorResponse(r)]
  /\ now' = [now EXCEPT ![r] = 0]
  /\ ver' = [ver EXCEPT ![r] = 0]
  /\ cache_data' = None
  /\ cache_expiry' = None
  /\ UNCHANGED rows

\* Variant of FetchRaises: the failed call caches the failure, keeping the
\* old rows for another TTL.
FetchRaisesExtends(r) ==
  /\ pc' = [pc EXCEPT ![r] = "done"]
  /\ resp' = [resp EXCEPT ![r] = ErrorResponse(r)]
  /\ now' = [now EXCEPT ![r] = 0]
  /\ ver' = [ver EXCEPT ![r] = 0]
  /\ cache_expiry' = Some(now[r] + ttl)
  /\ UNCHANGED <<cache_data, rows>>

\* Variant of FetchRaises: the failed fetch is tried again.
FetchRaisesRetries(r) ==
  /\ UNCHANGED <<pc, resp, now, ver, slot, rows>>

\* line 65, fetch_view_data raises: nothing of get_cached_data runs after it.
FetchRaises(r) ==
  /\ pc' = [pc EXCEPT ![r] = "done"]
  /\ resp' = [resp EXCEPT ![r] = ErrorResponse(r)]
  /\ now' = [now EXCEPT ![r] = 0]
  /\ ver' = [ver EXCEPT ![r] = 0]
  /\ UNCHANGED <<slot, rows>>

\* line 65, fetch_view_data returns res.
FetchReturns(r, res) ==
  /\ rows' = [rows EXCEPT ![r] = res]
  /\ pc' = [pc EXCEPT ![r] = "L66"]
  /\ ver' = [ver EXCEPT ![r] = nfetch']
  /\ UNCHANGED <<slot, now, resp>>

\* line 65: data = fetch_view_data(limit)
Fetch(r) ==
  /\ pc[r] = "L65"
  /\ nfetch < MaxFetch
  /\ nfetch' = nfetch + 1
  /\ fetchLog' = [fetchLog EXCEPT ![r] = Append(@, FetchArg(r))]
  /\ \/ \E res \in FetchOk(FetchArg(r)) : FetchReturns(r, res)
     \/ FetchRaises(r)
  /\ UNCHANGED <<conf, clock, phase, key, path, limit, dataVer, expVer, slotLimit,
                 lastStatus>>

\* line 66: cache_data = data
StoreData(r) ==
  /\ pc[r] = "L66"
  /\ cache_data' = Some(rows[r])
  /\ dataVer' = ver[r]
  /\ slotLimit' = fetchLog[r][Len(fetchLog[r])]
  /\ pc' = [pc EXCEPT ![r] = "L67"]
  /\ UNCHANGED <<conf, clock, phase, cache_expiry, locals, nfetch, ver, expVer,
                 fetchLog, lastStatus>>

\* Variant of ExpiryFor: the clock is read again when the rows are stored.
ExpiryAtStore(r) == clock + ttl

\* The value line 67 stores: now + timedelta(seconds=settings.CACHE_TTL)
ExpiryFor(r) == now[r] + ttl

\* line 67: cache_expiry = ... (and line 68: return data)
StoreExpiry(r) ==
  /\ pc[r] = "L67"
  /\ cache_expiry' = Some(ExpiryFor(r))
  /\ expVer' = ver[r]
  /\ pc' = [pc EXCEPT ![r] = "L87"]
  /\ UNCHANGED <<conf, clock, phase, cache_data, locals, nfetch, ver, dataVer,
                 fetchLog, slotLimit, lastStatus>>

\* read_view, line 87: return {"rows": rows[:limit]}; the locals of the call
\* are gone once it has returned.
Respond(r) ==
  /\ pc[r] = "L87"
  /\ resp' = [resp EXCEPT ![r] = Resp(200, "rows", PySlice(rows[r], limit[r]))]
  /\ pc' = [pc EXCEPT ![r] = "done"]
  /\ now' = [now EXCEPT ![r] = 0]
  /\ rows' = [rows EXCEPT ![r] = <<>>]
  /\ ver' = [ver EXCEPT ![r] = 0]
  /\ UNCHANGED <<conf, clock, phase, slot, key, path, limit, nfetch, dataVer, expVer,
                 fetchLog, slotLimit, lastStatus>>

\* The response is sent and the thread goes back to the pool.
Complete(r) ==
  /\ pc[r] = "done"
  /\ pc' = [pc EXCEPT ![r] = "idle"]
  /\ key' = [key EXCEPT ![r] = "valid"]
  /\ limit' = [limit EXCEPT ![r] = 0]
  /\ path' = [path EXCEPT ![r] = "/view"]
  /\ resp' = [resp EXCEPT ![r] = NoResp]
  /\ fetchLog' = [fetchLog EXCEPT ![r] = <<>>]
  /\ lastStatus' = IF path[r] = "/view" /\ key[r] = "valid"
                   THEN resp[r].status ELSE lastStatus
  /\ UNCHANGED <<conf, clock, phase, slot, now, rows, nfetch, ver, dataVer,
                 expVer, slotLimit>>

\* ------------------------------------------------------------------- next
Serve(lims) ==
  \/ PreloadFetch
  \/ PreloadStore
  \/ \E r \in Reqs : Request(r, lims)
  \/ \E r \in Reqs : Health(r)
  \/ \E r \in Reqs : Root(r)
  \/ \E r \in Reqs : RequireApiKey(r)
  \/ \E r \in Reqs : ReadNow(r)
  \/ \E r \in Reqs : CheckData(r)
  \/ \E r \in Reqs : CheckExpiry(r)
  \/ \E r \in Reqs : CompareExpiry(r)
  \/ \E r \in Reqs : ReturnCached(r)
  \/ \E r \in Reqs : Fetch(r)
  \/ \E r \in Reqs : StoreData(r)
  \/ \E r \in Reqs : StoreExpiry(r)
  \/ \E r \in Reqs : Respond(r)
  \/ \E r \in Reqs : Complete(r)

Next == Tick(MaxClock) \/ Serve(Limits)
NextConc == Tick(MaxClockConc) \/ Serve(ConcLimits)

\* Requests processed one at a time.
Spec == Init /\ [][Next]_vars

\* Requests processed concurrently by NReq threads.
SpecConc == InitConc /\ [][NextConc]_vars
SpecCold == InitCold /\ [][Next]_vars


\* ----------------------------------------------------------------- claims
\* The slot holds an entry that is not expired at time t.
EntryValidAt(t) ==
  cache_data # None /\ cache_expiry # None /\ t < Val(cache_expiry)

\* C1: every /view request whose X-API-Key header is missing or differs from
\* API_KEY is answered 403, whatever the slot holds and whatever the limit.
C1_InvalidKeyIs403 ==
  \A r \in Reqs :
    (pc[r] = "done" /\ path[r] = "/view" /\ key[r] # "valid")
      => resp[r].status = 403

\* C2: with requests processed one at a time, a call made while the slot holds
\* an entry with now < expiresAt performs no fetch and returns exactly the
\* stored rows, whatever rows the entry holds (zero rows included).
C2_CacheHit ==
  \A r \in Reqs :
    /\ pc[r] = "L65" => ~EntryValidAt(now[r])
    /\ (pc[r] = "L87" /\ fetchLog[r] = <<>>) => rows[r] = Val(cache_data)

\* C3: with requests processed one at a time, a valid-key request that finds
\* the slot empty or now >= expiresAt (now = expiresAt included) never returns
\* the cached rows; it performs exactly one fetch, with its own limit, and on
\* success the slot holds the fetched rows with expiresAt = now + CACHE_TTL,
\* now being the time read at the start of the call, and the call returns the
\* fetched rows.
C3_CacheMiss ==
  \A r \in Reqs :
    /\ Len(fetchLog[r]) <= 1
    /\ pc[r] = "L64" => EntryValidAt(now[r])
    /\ (pc[r] = "L87" /\ fetchLog[r] = <<>>) => EntryValidAt(now[r])
    /\ pc[r] \in {"L66", "L67"} =>
         (fetchLog[r] = <<limit[r]>> /\ rows[r] \in FetchOk(limit[r]))
    /\ (pc[r] = "L87" /\ fetchLog[r] # <<>>) =>
         /\ fetchLog[r] = <<limit[r]>>
         /\ cache_data = Some(rows[r])
         /\ cache_expiry = Some(now[r] + ttl)
         /\ rows[r] \in FetchOk(limit[r])
    /\ (pc[r] = "done" /\ resp[r].kind = "error") => fetchLog[r] = <<limit[r]>>

\* C3's case: a refresh has stored its rows, and the clock moved on between
\* the read of now and the store.
C3_Witness ==
  \E r \in Reqs :
    /\ pc[r] = "L87"
    /\ fetchLog[r] = <<limit[r]>>
    /\ rows[r] # <<>>
    /\ ttl > 0
    /\ clock > now[r]
    /\ dataVer > 1

\* C4: a call whose fetch raises never writes the slot. Every step a request
\* takes up to and including a failed fetch, and the failed fetch of
\* preload_cache, leaves cache_data and cache_expiry as they were.
C4_FailedFetchKeepsSlot ==
  [][ /\ \A r \in Reqs :
           (pc[r] \in {"auth", "L62", "L63a", "L63b", "L63c", "L65"}
              /\ pc'[r] \in {"L62", "L63a", "L63b", "L63c", "L65", "done"})
             => slot' = slot
      /\ (phase = "startup" /\ phase' = "failed") => slot' = slot ]_vars

\* C4's case: a request whose fetch failed has been answered while the slot
\* holds the earlier entry.
C4_Witness ==
  \E r \in Reqs :
    /\ pc[r] = "done"
    /\ resp[r].kind = "error"
    /\ fetchLog[r] # <<>>
    /\ TruthyList(cache_data)
    /\ cache_expiry # None

\* C5: a valid-key request whose fetch fails is answered 500 with an error
\* payload (no exception leaves the handler); the next valid-key request
\* fetches again, and when that fetch succeeds it is answered 200 with the
\* fetched rows and the slot holds them with a new expiry.
C5_FailureThenRecovery ==
  \A r \in Reqs :
    /\ (pc[r] = "done" /\ path[r] = "/view" /\ key[r] = "valid") =>
         \/ resp[r].status = 200 /\ resp[r].kind = "rows"
         \/ resp[r] = Resp(500, "error", <<>>) /\ Len(fetchLog[r]) = 1
    /\ (lastStatus = 500 /\ path[r] = "/view" /\ key[r] = "valid") =>
         /\ pc[r] # "L64"
         /\ pc[r] = "L87" =>
              /\ fetchLog[r] = <<limit[r]>>
              /\ cache_data = Some(rows[r])
              /\ cache_expiry = Some(now[r] + ttl)
              /\ dataVer = nfetch /\ expVer = nfetch
         /\ pc[r] = "done" => fetchLog[r] = <<limit[r]>>
         /\ (pc[r] = "done" /\ resp[r].status = 200) =>
              /\ cache_data = Some(resp[r].rows)
              /\ dataVer = nfetch /\ expVer = nfetch

\* C5's case: the request after a failed one has been answered 200 with rows.
C5_Witness ==
  \E r \in Reqs :
    /\ lastStatus = 500
    /\ pc[r] = "done"
    /\ key[r] = "valid"
    /\ resp[r].status = 200
    /\ resp[r].rows # <<>>

\* C6: every 200 response of /view carries at most limit rows, for every
\* integer limit the handler accepts (zero and negative ones included), on a
\* cache hit and on a fresh fetch alike.
C6_AtMostLimitRows ==
  \A r \in Reqs :
    (pc[r] = "done" /\ path[r] = "/view" /\ resp[r].status = 200)
      => Len(resp[r].rows) <= limit[r]

\* The slot still holds the entry preload_cache stored (the first fetch).
HoldsPreload == dataVer = 1 /\ expVer = 1

\* C7: preload_cache runs exactly once, at startup and before any request is
\* served, fetches with limit 100 and leaves the fetched rows in the slot with
\* an expiry CACHE_TTL after startup; so a valid-key request made before that
\* expiry returns the preloaded rows with no fetch, and one made at or after
\* it fetches (TTL = 5, preload at 0: the requests at 3 and at 6).
C7_PreloadThenTTL ==
  /\ Len(fetchLog[Startup]) <= 1
  /\ phase # "startup" => fetchLog[Startup] = <<100>>
  /\ phase # "serving" => \A r \in Reqs : pc[r] = "idle"
  /\ (phase = "serving" /\ HoldsPreload) =>
       /\ cache_data # None /\ Val(cache_data) \in FetchOk(100)
       /\ cache_expiry # None /\ Val(cache_expiry) - ttl \in 0..clock
  /\ \A r \in Reqs :
       HoldsPreload =>
         /\ pc[r] = "L65" => now[r] >= Val(cache_expiry)
         /\ pc[r] = "L64" => now[r] < Val(cache_expiry)
         /\ (pc[r] = "L87" /\ fetchLog[r] = <<>>) => rows[r] = Val(cache_data)

\* C8: under every interleaving of concurrent valid-key requests, whenever a
\* request is at a read of the slot (lines 63 and 64) the rows and the expiry
\* in it were written by one and the same refresh, and so they are once every
\* request has finished.
C8_NoTornSlot ==
  /\ \A r \in Reqs :
       pc[r] \in {"L63a", "L63b", "L63c", "L64"} => dataVer = expVer
  /\ (phase = "serving" /\ \A r \in Reqs : pc[r] \in {"idle", "done"})
       => dataVer = expVer

\* C9: no request issues more than one fetch, under any interleaving. (That
\* all concurrent requests can fetch for one expiry is C9_Witness.)
C9_AtMostOneFetchEach ==
  \A r \in Reqs :
    /\ Len(fetchLog[r]) <= 1
    /\ pc[r] \in {"L66", "L67", "L87"} /\ ver[r] # 0 => fetchLog[r] = <<limit[r]>>

\* C9's case: every thread of the pool has passed the expiry check of the
\* same entry (the preloaded one, still in the slot) and has fetched, and none
\* has stored yet: NReq fetches for one expiry.
C9_Witness ==
  /\ HoldsPreload
  /\ nfetch = 1 + NReq
  /\ \A r \in Reqs :
       /\ pc[r] = "L66"
       /\ Len(fetchLog[r]) = 1
       /\ TruthyList(cache_data)
       /\ now[r] >= Val(cache_expiry)

\* C10: the slot is not keyed by limit. With requests processed one at a time,
\* after a refresh with limit L stored at most L rows, every valid-key request
\* with a limit above L made while now < expiresAt is a hit: it fetches
\* nothing and gets only the cached rows, at most L of them; only a request
\* at or after the expiry fetches, with its own limit.
C10_LargerLimitIsShortHit ==
  \A r \in Reqs :
    (cache_data # None /\ key[r] = "valid" /\ limit[r] > slotLimit) =>
      /\ Len(Val(cache_data)) <= slotLimit
      /\ pc[r] = "L65" => ~EntryValidAt(now[r])
      /\ pc[r] = "L64" => EntryValidAt(now[r])
      /\ (pc[r] = "L87" /\ fetchLog[r] = <<>>) =>
           /\ rows[r] = Val(cache_data)
           /\ Len(PySlice(rows[r], limit[r])) <= slotLimit

\* C11: no retry and no fallback to stale rows. A request whose fetch fails
\* has made exactly one fetch attempt and is answered 500, never 200; every
\* 200 response comes from line 87, which a request reaches either with the
\* rows it fetched itself or from line 64, and it enters line 64 only when its
\* own now is earlier than the expiry it reads.
C11_NoRetryNoStale ==
  /\ [](\A r \in Reqs :
          /\ Len(fetchLog[r]) <= 1
          /\ (pc[r] = "done" /\ resp[r].kind = "error") =>
               (resp[r].status = 500 /\ Len(fetchLog[r]) = 1)
          /\ pc[r] = "L87" =>
               \/ fetchLog[r] # <<>> /\ ver[r] # 0 /\ rows[r] \in FetchOk(limit[r])
               \/ fetchLog[r] = <<>> /\ ver[r] = 0)
  /\ [][\A r \in Reqs :
          /\ (pc[r] = "L65" /\ pc'[r] = "done") =>
               (resp'[r].status = 500 /\ resp'[r].kind = "error")
          /\ (pc[r] = "L65" /\ pc'[r] # "L65") => Len(fetchLog'[r]) = 1
          /\ (pc[r] # "L64" /\ pc'[r] = "L64") =>
               (pc[r] = "L63c" /\ cache_expiry # None
                  /\ now[r] < Val(cache_expiry))
          /\ (pc[r] # "L87" /\ pc'[r] = "L87") =>
               \/ pc[r] = "L64" /\ rows'[r] = Val(cache_data)
               \/ pc[r] = "L67" /\ ver[r] # 0 /\ rows'[r] = rows[r]
          /\ (resp'[r] # resp[r] /\ path'[r] = "/view"
                /\ resp'[r].status = 200) =>
               (pc[r] = "L87" /\ resp'[r].rows = PySlice(rows[r], limit[r]))
       ]_vars

\* C11's case: the slot holds an expired entry of one row or more, and the
\* request that tried to refresh it has been answered 500 after one fetch.
C11_Witness ==
  \E r \in Reqs :
    /\ pc[r] = "done"
    /\ resp[r] = Resp(500, "error", <<>>)
    /\ Len(fetchLog[r]) = 1
    /\ TruthyList(cache_data)
    /\ cache_expiry # None /\ clock >= Val(cache_expiry)
    /\ limit[r] >= 0

\* The first n rows of s, in the order of s (none when n <= 0).
FirstRows(s, n) == [i \in 1..Min(Max(n, 0), Len(s)) |-> s[i]]

\* C12: the slot is only overwritten wholesale. With requests processed one
\* at a time, a cache hit is answered with the first limit rows of the cached
\* rows in their stored order (all of them when limit is larger), also when
\* limit is smaller than their number, and no step of a hit changes
\* cache_data or cache_expiry; so a later hit with a larger limit still gets
\* the full cached rows, up to its own limit.
C12_HitServesPrefixOfSlot ==
  /\ [](\A r \in Reqs :
          (pc[r] = "done" /\ path[r] = "/view" /\ resp[r].status = 200
             /\ fetchLog[r] = <<>>) =>
            /\ cache_data # None
            /\ resp[r].rows = FirstRows(Val(cache_data), limit[r]))
  /\ [][\A r \in Reqs :
          (pc'[r] # pc[r] /\ fetchLog'[r] = <<>>) => slot' = slot]_vars

\* C13: a preload fetch that raises ends the startup: the exception leaves
\* preload_cache, the slot stays empty, and from then on no request is
\* taken and no response is produced. A request that finds cache_data still
\* unset goes from the test of line 63 straight to the fetch of line 65 and
\* performs exactly one fetch, with its own limit, before it stores.
C13_PreloadFailureIsFatal ==
  /\ [](phase = "failed" =>
          /\ cache_data = None /\ cache_expiry = None
          /\ fetchLog[Startup] = <<PreloadLimit>>
          /\ lastStatus = 0
          /\ \A r \in Reqs : pc[r] = "idle" /\ resp[r] = NoResp)
  /\ [](phase \in {"L75", "serving"} /\ fetchLog[Startup] # <<>>
          => cache_data # None)
  /\ [](\A r \in Reqs :
          /\ pc[r] \in {"L63b", "L63c", "L64"} => cache_data # None
          /\ (pc[r] \in {"L66", "L67"} /\ cache_data = None)
               => fetchLog[r] = <<limit[r]>>)
  /\ [][/\ phase = "failed" => (phase' = "failed" /\ pc' = pc /\ slot' = slot
                                  /\ resp' = resp /\ nfetch' = nfetch)
        /\ \A r \in Reqs :
             (pc[r] = "L63a" /\ pc'[r] # "L63a" /\ cache_data = None)
               => pc'[r] = "L65"
       ]_vars

C13_Witness ==
  \E r \in Reqs :
    /\ pc[r] = "L66" /\ cache_data = None /\ cache_expiry = None
    /\ fetchLog[r] = <<limit[r]>> /\ fetchLog[Startup] = <<>>

\* A request whose X-API-Key header is absent or is not the configured key,
\* or one that is for /health or /.
Harmless(k, p) == k # "valid" \/ p # "/view"

\* C14: a request rejected by the API-key check, and a request to /health or
\* /, never reaches get_cached_data: it issues no fetch, and none of its
\* steps changes cache_data or cache_expiry, whatever the slot holds (an
\* expired entry, or nothing at all).
C14_RejectedRequestsTouchNothing ==
  /\ [](\A r \in Reqs :
          Harmless(key[r], path[r]) =>
            /\ pc[r] \in {"auth", "done"}
            /\ fetchLog[r] = <<>>
            /\ resp[r].kind # "rows")
  /\ [][\A r \in Reqs :
          (/\ pc'[r] # pc[r]
           /\ IF pc[r] = "idle" THEN Harmless(key'[r], path'[r])
                                ELSE Harmless(key[r], path[r]))
            => (slot' = slot /\ nfetch' = nfetch /\ fetchLog' = fetchLog)
       ]_vars

C14_Witness ==
  \E r \in Reqs :
    /\ pc[r] = "done" /\ path[r] = "/view" /\ key[r] = "wrong"
    /\ resp[r].status = 403
    /\ cache_expiry # None /\ clock >= Val(cache_expiry)
    /\ nfetch = 1

\* C15: cache_expiry never moves backwards: every write to cache_expiry that
\* replaces a value stores one greater than or equal to it, in every
\* interleaving of the requests (the clock of the model never decreases).
C15_ExpiryNeverMovesBack ==
  [][(cache_expiry # None /\ cache_expiry' # cache_expiry) =>
       (cache_expiry' # None /\ Val(cache_expiry') >= Val(cache_expiry))
    ]_vars

============================================================================
